---- MODULE Spec2Model ----
(***************************************************************************)
(* ClaudeCodeAgent (src/src/autogluon/assistant/llm/claude_code_agent.py): *)
(* the agent-session adapter.  The process environment, the session        *)
(* objects, and one call frame of assistant_chat/_send_via_sdk per session *)
(* (each session has its own caller thread; os.environ is shared).         *)
(***************************************************************************)
EXTENDS Integers, Sequences, FiniteSets, TLC

\* ------------------------------------------------------------------ bounds
MaxCalls == 2       \* assistant_chat calls started in one process
MaxCount == 1       \* token counts reported by the backend lie in -MaxCount..MaxCount
MaxDescribes == 2   \* describe calls recorded in one process

\* ------------------------------------------------------------------ values
Sessions == {1, 2}

None   == "<None>"      \* Python None
NoAttr == "<noattr>"    \* hasattr(obj, name) is False
NotStr == "<notstr>"    \* a value that is not a str (a list of content blocks)
Absent == "<absent>"    \* name not in os.environ

\* Python truthiness of an Optional[str]
Truthy(x) == x /= None /\ x /= ""

EnvVars == {"ANTHROPIC_API_KEY", "AWS_DEFAULT_REGION", "CLAUDE_CODE_USE_BEDROCK", "CLAUDE_MODEL"}

\* os.environ.get(name)  /  os.environ.get(name, default)
EnvGet(e, name) == IF e[name] = Absent THEN None ELSE e[name]
EnvGetDefault(e, name, default) == IF e[name] = Absent THEN default ELSE e[name]

\* getattr(obj, name, default) on an attribute held as <<>> (missing) or <<v>>
Getattr(a, default) == IF a = <<>> THEN default ELSE a[1]

\* ------------------------------------------------------------------ state
VARIABLES
    env,        \* os.environ restricted to EnvVars: value, or Absent
    session,    \* the ClaudeCodeAgent objects, by slot
    frame,      \* the call frame of assistant_chat / _send_via_sdk, by session
    obs,        \* what the caller and the backend have seen of the call in flight
    ctor,       \* the last create_claude_code_agent call and its outcome
    ncalls      \* assistant_chat calls started so far

vars == <<env, session, frame, obs, ctor, ncalls>>

\* ------------------------------------------------------------ the session
DefaultModel == "claude-3-5-sonnet-20241022"

\* lines 32-34, 88-91: the default allowed_tools list (lists are held by name)
DefaultTools == "[Read,Write,Edit,Bash,Glob,Grep,WebSearch,WebFetch]"

\* os.getcwd() when the object is built
Cwd == "<cwd>"

\* BaseAssistantChat (base_chat): the counters and the history of a new session.
BaseAssistantChatInit == [input_tokens_ |-> 0, output_tokens_ |-> 0, history_ |-> <<>>]

\* No object in the slot.
NoSession ==
    [exists |-> FALSE, model_name |-> DefaultModel, use_bedrock |-> FALSE,
     aws_region |-> None, api_key |-> None, sdk_available |-> FALSE, agent |-> FALSE,
     allowed_tools |-> DefaultTools, working_directory |-> Cwd,
     input_tokens_ |-> BaseAssistantChatInit.input_tokens_,
     output_tokens_ |-> BaseAssistantChatInit.output_tokens_,
     history_ |-> BaseAssistantChatInit.history_]

\* An object holding the declared field defaults (agent = False, sdk_available = False).
FieldDefaults == [NoSession EXCEPT !.exists = TRUE]

\* faulty variant of CredentialMissing: tests `api_key is None`
CredentialMissingNone(key) == key = None

\* line 82: `if not api_key`
CredentialMissing(key) == ~Truthy(key)

\* ClaudeCodeAgent.__init__: the environment it leaves, the exception it raises
\* ("" when none), whether the SDK import was attempted, the environment names
\* it looked up, and the object built.
ClaudeCodeAgentInit(model, allowed_tools, working_directory, api_key, use_bedrock, aws_region, e, sdk_importable) ==
    LET region   == IF Truthy(aws_region) THEN aws_region
                    ELSE EnvGetDefault(e, "AWS_DEFAULT_REGION", "us-west-2")
        eRegion  == IF e["AWS_DEFAULT_REGION"] = Absent
                    THEN [e EXCEPT !["AWS_DEFAULT_REGION"] = region] ELSE e
        eBedrock == [eRegion EXCEPT !["CLAUDE_CODE_USE_BEDROCK"] = "1"]
        key      == IF Truthy(api_key) THEN api_key ELSE EnvGet(e, "ANTHROPIC_API_KEY")
        eDirect  == [e EXCEPT !["ANTHROPIC_API_KEY"] = key]
        e1       == IF use_bedrock THEN eBedrock ELSE eDirect
        reads    == IF use_bedrock THEN {"AWS_DEFAULT_REGION"}
                    ELSE IF Truthy(api_key) THEN {} ELSE {"ANTHROPIC_API_KEY"}
        obj      == [exists |-> TRUE, model_name |-> model, use_bedrock |-> use_bedrock,
                     aws_region |-> IF use_bedrock THEN region ELSE aws_region,
                     api_key |-> IF use_bedrock THEN api_key ELSE key,
                     sdk_available |-> TRUE, agent |-> TRUE,
                     allowed_tools |-> IF allowed_tools = None THEN DefaultTools
                                       ELSE allowed_tools,
                     working_directory |-> IF Truthy(working_directory)
                                           THEN working_directory ELSE Cwd,
                     input_tokens_ |-> BaseAssistantChatInit.input_tokens_,
                     output_tokens_ |-> BaseAssistantChatInit.output_tokens_,
                     history_ |-> BaseAssistantChatInit.history_]
    IN  IF ~use_bedrock /\ CredentialMissing(key)
        THEN [raised |-> "ValueError", env |-> e, imported |-> FALSE, reads |-> reads,
              obj |-> NoSession]
        ELSE IF ~sdk_importable
        THEN [raised |-> "ImportError", env |-> e1, imported |-> TRUE, reads |-> reads,
              obj |-> NoSession]
        ELSE [raised |-> "", env |-> e1, imported |-> TRUE, reads |-> reads, obj |-> obj]

\* faulty variant of create_claude_code_agent: the backend attribute is ignored
create_claude_code_agent_direct(config, e, sdk_importable) ==
    LET use_bedrock == FALSE
        aws_region  == IF config.aws_region = NoAttr THEN None ELSE config.aws_region
        api_key     == IF ~use_bedrock /\ config.api_key /= NoAttr THEN config.api_key ELSE None
        allowed_tools == IF config.allowed_tools = NoAttr THEN None ELSE config.allowed_tools
        working_directory == IF config.working_directory = NoAttr THEN None
                             ELSE config.working_directory
    IN  ClaudeCodeAgentInit(config.model, allowed_tools, working_directory, api_key,
                            use_bedrock, aws_region, e, sdk_importable)

\* create_claude_code_agent(config, session_name): config attributes are a value or NoAttr.
create_claude_code_agent(config, e, sdk_importable) ==
    LET backend     == IF config.backend = NoAttr THEN "anthropic" ELSE config.backend
        use_bedrock == (backend = "bedrock")
        aws_region  == IF config.aws_region = NoAttr THEN None ELSE config.aws_region
        api_key     == IF ~use_bedrock /\ config.api_key /= NoAttr THEN config.api_key ELSE None
        allowed_tools == IF config.allowed_tools = NoAttr THEN None ELSE config.allowed_tools
        working_directory == IF config.working_directory = NoAttr THEN None
                             ELSE config.working_directory
    IN  ClaudeCodeAgentInit(config.model, allowed_tools, working_directory, api_key,
                            use_bedrock, aws_region, e, sdk_importable)

\* ------------------------------------------------------------ backend events
\* A message of the SDK stream: the attributes the scan probes.  usage is absent,
\* or present (None and dicts included) with each count attribute missing (<<>>)
\* or an integer (<<n>>).
NoUsage == [present |-> FALSE, input_tokens |-> <<>>, output_tokens |-> <<>>]
CountAttrs == {<<>>} \cup {<<n>> : n \in (0 - MaxCount)..MaxCount}
Usages == {NoUsage} \cup [present : {TRUE}, input_tokens : CountAttrs, output_tokens : CountAttrs]
NoText == [result |-> NoAttr, content |-> NoAttr]

\* faulty variant of ScanText: content is probed before result
ScanTextContentFirst(result_text, msg) ==
    IF msg.content /= NoAttr /\ msg.content /= NotStr THEN msg.content
    ELSE IF msg.result /= NoAttr THEN msg.result
    ELSE result_text

\* lines 156-160: the text kept after one message
ScanText(result_text, msg) ==
    IF msg.result /= NoAttr THEN msg.result
    ELSE IF msg.content /= NoAttr /\ msg.content /= NotStr THEN msg.content
    ELSE result_text

\* lines 163-165: the counts kept after one message
ScanInput(input_tokens, msg) ==
    IF msg.usage.present THEN Getattr(msg.usage.input_tokens, 0) ELSE input_tokens
ScanOutput(output_tokens, msg) ==
    IF msg.usage.present THEN Getattr(msg.usage.output_tokens, 0) ELSE output_tokens

\* faulty variant of UsagePositive: `and` for `or`
UsageBothPositive(input_tokens, output_tokens) == input_tokens > 0 /\ output_tokens > 0

\* line 174: the guard of the counter update
UsagePositive(input_tokens, output_tokens) == input_tokens > 0 \/ output_tokens > 0

\* line 184
ReturnText(result_text) == IF Truthy(result_text) THEN result_text ELSE ""

\* lines 214-219
HistoryEntry(message, response_text) ==
    [input |-> message, output |-> response_text, input_tokens |-> 0, output_tokens |-> 0]

\* ------------------------------------------------------------ call frames
IdleFrame ==
    [pc |-> "idle", message |-> "", original_model |-> None, result_text |-> "",
     input_tokens |-> 0, output_tokens |-> 0, response_text |-> "", exc |-> ""]

NoPre == [input_tokens_ |-> 0, output_tokens_ |-> 0, history_ |-> <<>>, model |-> Absent]
\* queries: backend queries started in this call; seen_model: CLAUDE_MODEL as the
\* backend read it; failed: the backend raised; last_text, last_str, last_usage:
\* the last message yielded that carried a result or content attribute, a result
\* or str content, a usage attribute; pre: the session and CLAUDE_MODEL when the
\* call began; log: the (message, text) pairs of the calls that returned; descs:
\* what each describe call returned, and the length of the history at that call.
NoObs == [queries |-> 0, seen_model |-> Absent, failed |-> FALSE, last_text |-> NoText,
          last_str |-> NoText, last_usage |-> NoUsage, pre |-> NoPre, log |-> <<>>,
          descs |-> <<>>]

Idle(s) == frame[s].pc = "idle"
AllIdle == \A t \in Sessions : Idle(t)

\* The caller invokes session.assistant_chat(message).
Call(s, m) ==
    /\ ~ctor.pending
    /\ Idle(s)
    /\ session[s].exists
    /\ frame' = [frame EXCEPT ![s] = [IdleFrame EXCEPT !.pc = "L200", !.message = m]]
    /\ obs' = [obs EXCEPT ![s] = [NoObs EXCEPT !.log = obs[s].log,
                                                !.descs = obs[s].descs, !.pre =
                  [input_tokens_ |-> session[s].input_tokens_,
                   output_tokens_ |-> session[s].output_tokens_,
                   history_ |-> session[s].history_,
                   model |-> env["CLAUDE_MODEL"]]]]
    /\ ncalls' = ncalls + 1
    /\ UNCHANGED <<env, session, ctor>>

\* faulty variant of CheckMessage: the readiness guard comes first
CheckMessageAgentFirst(s) ==
    /\ frame[s].pc = "L200"
    /\ frame' = [frame EXCEPT ![s] =
            IF ~session[s].agent THEN [@ EXCEPT !.pc = "raised", !.exc = "RuntimeError"]
            ELSE IF frame[s].message = "" THEN [@ EXCEPT !.pc = "raised", !.exc = "ValueError"]
            ELSE [@ EXCEPT !.pc = "L134"]]
    /\ UNCHANGED <<env, session, obs, ctor, ncalls>>

\* faulty variant of CheckMessage: the readiness guard is missing
CheckMessageNoAgent(s) ==
    /\ frame[s].pc = "L200"
    /\ frame' = [frame EXCEPT ![s] =
            IF frame[s].message = "" THEN [@ EXCEPT !.pc = "raised", !.exc = "ValueError"]
            ELSE [@ EXCEPT !.pc = "L134"]]
    /\ UNCHANGED <<env, session, obs, ctor, ncalls>>

\* assistant_chat, lines 200-204: the two guards.
CheckMessage(s) ==
    /\ frame[s].pc = "L200"
    /\ frame' = [frame EXCEPT ![s] =
            IF frame[s].message = "" THEN [@ EXCEPT !.pc = "raised", !.exc = "ValueError"]
            ELSE IF ~session[s].agent THEN [@ EXCEPT !.pc = "raised", !.exc = "RuntimeError"]
            ELSE [@ EXCEPT !.pc = "L134"]]
    /\ UNCHANGED <<env, session, obs, ctor, ncalls>>

\* _send_via_sdk, line 134
SaveModel(s) ==
    /\ frame[s].pc = "L134"
    /\ frame' = [frame EXCEPT ![s].pc = "L135",
                              ![s].original_model = EnvGet(env, "CLAUDE_MODEL")]
    /\ UNCHANGED <<env, session, obs, ctor, ncalls>>

\* line 135
SetModel(s) ==
    /\ frame[s].pc = "L135"
    /\ env' = [env EXCEPT !["CLAUDE_MODEL"] = session[s].model_name]
    /\ frame' = [frame EXCEPT ![s].pc = "L138"]
    /\ UNCHANGED <<session, obs, ctor, ncalls>>

\* lines 138-145: ClaudeAgentOptions(...) returns, or raises outside the inner try;
\* the exception passes the two logging handlers (186-188, 223-225) to the caller.
BuildOptions(s, ok) ==
    /\ frame[s].pc = "L138"
    /\ frame' = [frame EXCEPT ![s] =
            IF ok THEN [@ EXCEPT !.pc = "L149", !.result_text = "",
                                 !.input_tokens = 0, !.output_tokens = 0]
            ELSE [@ EXCEPT !.pc = "raised", !.exc = "OptionsError"]]
    /\ UNCHANGED <<env, session, obs, ctor, ncalls>>

\* line 149: self.query(prompt, options) is started; the SDK reads CLAUDE_MODEL.
StartQuery(s) ==
    /\ frame[s].pc = "L149"
    /\ frame' = [frame EXCEPT ![s].pc = "loop"]
    /\ obs' = [obs EXCEPT ![s].queries = @ + 1, ![s].seen_model = env["CLAUDE_MODEL"]]
    /\ UNCHANGED <<env, session, ctor, ncalls>>

\* faulty variant of Yield: the counts are added to the counters as they arrive
YieldAccumulating(s, msg) ==
    /\ frame[s].pc = "loop"
    /\ frame' = [frame EXCEPT ![s].result_text = ScanText(@, msg),
                              ![s].input_tokens = ScanInput(@, msg),
                              ![s].output_tokens = ScanOutput(@, msg)]
    /\ obs' = [obs EXCEPT
            ![s].last_text = IF msg.result /= NoAttr \/ msg.content /= NoAttr
                             THEN [result |-> msg.result, content |-> msg.content] ELSE @,
            ![s].last_str = IF msg.result /= NoAttr \/ msg.content \notin {NoAttr, NotStr}
                            THEN [result |-> msg.result, content |-> msg.content] ELSE @,
            ![s].last_usage = IF msg.usage.present THEN msg.usage ELSE @]
    /\ session' = [session EXCEPT
            ![s].input_tokens_ = @ + (IF msg.usage.present
                                      THEN Getattr(msg.usage.input_tokens, 0) ELSE 0),
            ![s].output_tokens_ = @ + (IF msg.usage.present
                                       THEN Getattr(msg.usage.output_tokens, 0) ELSE 0)]
    /\ UNCHANGED <<env, ctor, ncalls>>

\* lines 149-165: the stream yields msg and the loop body runs.
Yield(s, msg) ==
    /\ frame[s].pc = "loop"
    /\ frame' = [frame EXCEPT ![s].result_text = ScanText(@, msg),
                              ![s].input_tokens = ScanInput(@, msg),
                              ![s].output_tokens = ScanOutput(@, msg)]
    /\ obs' = [obs EXCEPT
            ![s].last_text = IF msg.result /= NoAttr \/ msg.content /= NoAttr
                             THEN [result |-> msg.result, content |-> msg.content] ELSE @,
            ![s].last_str = IF msg.result /= NoAttr \/ msg.content \notin {NoAttr, NotStr}
                            THEN [result |-> msg.result, content |-> msg.content] ELSE @,
            ![s].last_usage = IF msg.usage.present THEN msg.usage ELSE @]
    /\ UNCHANGED <<env, session, ctor, ncalls>>

\* line 149: the stream ends (raising = FALSE) or the backend raises (TRUE);
\* either way control enters the finally block.
EndStream(s, raising) ==
    /\ frame[s].pc = "loop"
    /\ frame' = [frame EXCEPT ![s].pc = "L168", ![s].exc = IF raising THEN "SDKError" ELSE ""]
    /\ obs' = [obs EXCEPT ![s].failed = raising]
    /\ UNCHANGED <<env, session, ctor, ncalls>>

\* faulty variant of AfterFinally: the pending exception is dropped
AfterFinallySwallow(f) == "L174"

\* where control goes when the finally block is left
AfterFinally(f) == IF f.exc /= "" THEN "raised" ELSE "L174"

\* lines 168-170: restore the saved value, or test whether the name is set
RestoreModel(s) ==
    /\ frame[s].pc = "L168"
    /\ IF frame[s].original_model /= None
       THEN /\ env' = [env EXCEPT !["CLAUDE_MODEL"] = frame[s].original_model]
            /\ frame' = [frame EXCEPT ![s].pc = AfterFinally(frame[s])]
       ELSE /\ env' = env
            /\ frame' = [frame EXCEPT ![s].pc =
                    IF env["CLAUDE_MODEL"] /= Absent THEN "L171" ELSE AfterFinally(frame[s])]
    /\ UNCHANGED <<session, obs, ctor, ncalls>>

\* line 171: del os.environ["CLAUDE_MODEL"]; KeyError when another thread removed it
DeleteModel(s) ==
    /\ frame[s].pc = "L171"
    /\ IF env["CLAUDE_MODEL"] /= Absent
       THEN /\ env' = [env EXCEPT !["CLAUDE_MODEL"] = Absent]
            /\ frame' = [frame EXCEPT ![s].pc = AfterFinally(frame[s])]
       ELSE /\ env' = env
            /\ frame' = [frame EXCEPT ![s].pc = "raised", ![s].exc = "KeyError"]
    /\ UNCHANGED <<session, obs, ctor, ncalls>>

\* lines 174-184: update the cumulative counters, return the text
UpdateTokens(s) ==
    /\ frame[s].pc = "L174"
    /\ session' = [session EXCEPT ![s] =
            IF UsagePositive(frame[s].input_tokens, frame[s].output_tokens)
            THEN [@ EXCEPT !.input_tokens_ = @ + frame[s].input_tokens,
                           !.output_tokens_ = @ + frame[s].output_tokens]
            ELSE @]
    /\ frame' = [frame EXCEPT ![s].pc = "L214",
                              ![s].response_text = ReturnText(frame[s].result_text)]
    /\ UNCHANGED <<env, obs, ctor, ncalls>>

\* faulty variant of AppendHistory: the entry is put in front
AppendHistoryFront(s) ==
    /\ frame[s].pc = "L214"
    /\ session' = [session EXCEPT ![s].history_ =
            <<HistoryEntry(frame[s].message, frame[s].response_text)>> \o @]
    /\ frame' = [frame EXCEPT ![s].pc = "returned"]
    /\ UNCHANGED <<env, obs, ctor, ncalls>>

\* assistant_chat, lines 214-221: record in history, return response_text
AppendHistory(s) ==
    /\ frame[s].pc = "L214"
    /\ session' = [session EXCEPT ![s].history_ =
            Append(@, HistoryEntry(frame[s].message, frame[s].response_text))]
    /\ frame' = [frame EXCEPT ![s].pc = "returned"]
    /\ UNCHANGED <<env, obs, ctor, ncalls>>

\* The caller has the returned text or the exception and goes on.
Resume(s) ==
    /\ frame[s].pc \in {"returned", "raised"}
    /\ frame' = [frame EXCEPT ![s] = IdleFrame]
    /\ obs' = [obs EXCEPT ![s] = [NoObs EXCEPT !.descs = obs[s].descs, !.log =
            IF frame[s].pc = "returned"
            THEN Append(obs[s].log, <<frame[s].message, frame[s].response_text>>)
            ELSE obs[s].log]]
    /\ UNCHANGED <<env, session, ctor, ncalls>>

\* ------------------------------------------------------------ describe
\* BaseAssistantChat.describe (base_chat): the session after the call.
BaseAssistantChatDescribe(sess) == sess

\* lines 230-237: the keys describe sets over those of the base description
DescribeResult(sess) ==
    [provider |-> "claude-code", model |-> sess.model_name,
     backend |-> IF sess.use_bedrock THEN "bedrock" ELSE "anthropic",
     working_directory |-> sess.working_directory, allowed_tools |-> sess.allowed_tools]

\* faulty variant of Describe: the call is recorded as a turn of the conversation
DescribeRecording(s) ==
    /\ ~ctor.pending
    /\ Idle(s)
    /\ session[s].exists
    /\ session' = [session EXCEPT ![s].history_ = Append(@, HistoryEntry("describe", ""))]
    /\ obs' = [obs EXCEPT ![s].descs =
            Append(@, [result |-> DescribeResult(session'[s]), at |-> Len(session[s].history_)])]
    /\ UNCHANGED <<env, frame, ctor, ncalls>>

\* The caller invokes session.describe() while no send of the session is in flight.
Describe(s) ==
    /\ ~ctor.pending
    /\ Idle(s)
    /\ session[s].exists
    /\ session' = [session EXCEPT ![s] = BaseAssistantChatDescribe(@)]
    /\ obs' = [obs EXCEPT ![s].descs =
            Append(@, [result |-> DescribeResult(session'[s]), at |-> Len(session[s].history_)])]
    /\ UNCHANGED <<env, frame, ctor, ncalls>>

\* ------------------------------------------------------------ construction
NoCtor == [pending |-> FALSE, slot |-> 1, raised |-> "", imported |-> FALSE,
           sdk |-> FALSE, reads |-> {},
           config |-> [model |-> DefaultModel, backend |-> NoAttr,
                       aws_region |-> NoAttr, api_key |-> NoAttr,
                       allowed_tools |-> NoAttr, working_directory |-> NoAttr],
           env0 |-> [v \in EnvVars |-> Absent]]

\* The caller invokes create_claude_code_agent(config, session_name) for a free slot.
Create(s, config, sdk_importable) ==
    LET r == create_claude_code_agent(config, env, sdk_importable) IN
    /\ ~ctor.pending
    /\ ~session[s].exists
    /\ env' = r.env
    /\ session' = [session EXCEPT ![s] = IF r.raised = "" THEN r.obj ELSE @]
    /\ ctor' = [pending |-> TRUE, slot |-> s, raised |-> r.raised, imported |-> r.imported,
                sdk |-> sdk_importable, reads |-> r.reads, config |-> config, env0 |-> env]
    /\ UNCHANGED <<frame, obs, ncalls>>

\* The caller has the session or the exception and goes on.
Created ==
    /\ ctor.pending
    /\ ctor' = NoCtor
    /\ UNCHANGED <<env, session, frame, obs, ncalls>>

\* ------------------------------------------------------------ inputs
Models == {"mA", "mB"}
Messages == {"", "hello", "again"}
\* the messages sent to a session that is also described
DescribeMessages == {"", "hello"}

\* every shape of backend, region and credential the factory distinguishes
Configs == [model : Models, backend : {NoAttr, "anthropic", "bedrock"},
            aws_region : {NoAttr, None, "r1"}, api_key : {NoAttr, None, "", "k1"},
            allowed_tools : {NoAttr}, working_directory : {NoAttr}]
\* the configurations of a session that is then sent to
SendConfigs == [model : Models, backend : {"anthropic"}, aws_region : {NoAttr}, api_key : {"k1"},
                allowed_tools : {NoAttr}, working_directory : {NoAttr}]

\* the configuration of the session whose stream is scanned
ScanConfigs == [model : {"mA"}, backend : {"anthropic"}, aws_region : {NoAttr}, api_key : {"k1"},
                allowed_tools : {NoAttr}, working_directory : {NoAttr}]

\* the configurations of a session that is then described
DescribeConfigs ==
    {[model |-> "mA", backend |-> "anthropic", aws_region |-> NoAttr, api_key |-> "k1",
      allowed_tools |-> NoAttr, working_directory |-> NoAttr],
     [model |-> "mB", backend |-> "bedrock", aws_region |-> NoAttr, api_key |-> NoAttr,
      allowed_tools |-> "[Read]", working_directory |-> "/w"]}

\* every shape of stream message the scan distinguishes
Events == [result : {NoAttr, None, "", "r1"}, content : {NoAttr, NotStr, "c1"}, usage : Usages]
\* the messages of a well-behaved backend
PlainEvents == [result : {NoAttr, "r1"}, content : {NoAttr}, usage : {NoUsage}]
                 \cup {[result |-> NoAttr, content |-> NoAttr,
                        usage |-> [present |-> TRUE, input_tokens |-> <<MaxCount>>,
                                   output_tokens |-> <<MaxCount>>]]}

\* ------------------------------------------------------------ specifications
InitEnv(key, region, model) ==
    env = [v \in EnvVars |-> CASE v = "ANTHROPIC_API_KEY" -> key
                               [] v = "AWS_DEFAULT_REGION" -> region
                               [] v = "CLAUDE_MODEL" -> model
                               [] OTHER -> Absent]

\* A slot is empty, or holds an object with the declared field defaults (one
\* built without __init__, the only kind whose agent flag is False).
InitRest ==
    /\ session \in [Sessions -> {NoSession, FieldDefaults}]
    /\ frame = [s \in Sessions |-> IdleFrame]
    /\ obs = [s \in Sessions |-> NoObs]
    /\ ctor = NoCtor
    /\ ncalls = 0

\* process start: no credential or region in the environment
Init ==
    /\ \E model \in {Absent, "m0"} : InitEnv(Absent, Absent, model)
    /\ InitRest

\* process start, over the credential and region the environment may hold
InitCreate ==
    /\ \E key \in {Absent, "", "k0"}, region \in {Absent, "r0"} : InitEnv(key, region, Absent)
    /\ InitRest

\* process start: an empty environment, nothing constructed yet
InitDescribe ==
    /\ InitEnv(Absent, Absent, Absent)
    /\ InitRest
    /\ session = [s \in Sessions |-> NoSession]

\* the steps of a send in flight
Step(s) ==
    \/ CheckMessage(s)
    \/ SaveModel(s)
    \/ SetModel(s)
    \/ \E ok \in BOOLEAN : BuildOptions(s, ok)
    \/ StartQuery(s)
    \/ \E raising \in BOOLEAN : EndStream(s, raising)
    \/ RestoreModel(s)
    \/ DeleteModel(s)
    \/ UpdateTokens(s)
    \/ AppendHistory(s)
    \/ Resume(s)

\* a session is constructed while no send is in flight
CreateInTurn(s, c, sdk) == AllIdle /\ Create(s, c, sdk)
\* a send may start while another session's send is in flight
CallAnyTime(s, m) == ncalls < MaxCalls /\ Call(s, m)
\* a send starts only when no other send is in flight
CallInTurn(s, m) == ncalls < MaxCalls /\ AllIdle /\ Call(s, m)
\* the first send of the process
CallFirst(s, m) == ncalls = 0 /\ AllIdle /\ Call(s, m)

\* one caller: sessions are constructed and sent to one call at a time
Next ==
    \/ \E s \in Sessions, c \in SendConfigs, sdk \in BOOLEAN : CreateInTurn(s, c, sdk)
    \/ Created
    \/ \E s \in Sessions, m \in Messages : CallInTurn(s, m)
    \/ \E s \in Sessions, msg \in PlainEvents : Yield(s, msg)
    \/ \E s \in Sessions : Step(s)

Spec == Init /\ [][Next]_vars

\* each session used from its own thread, the sends of different sessions interleaving
NextThreads ==
    \/ \E s \in Sessions, c \in SendConfigs, sdk \in BOOLEAN : Create(s, c, sdk)
    \/ Created
    \/ \E s \in Sessions, m \in Messages : CallAnyTime(s, m)
    \/ \E s \in Sessions, msg \in PlainEvents : Yield(s, msg)
    \/ \E s \in Sessions : Step(s)

SpecThreads == Init /\ [][NextThreads]_vars

\* the first send of a process, to a backend that may yield any message
NextScan ==
    \/ \E s \in Sessions, c \in ScanConfigs, sdk \in BOOLEAN : CreateInTurn(s, c, sdk)
    \/ Created
    \/ \E s \in Sessions, m \in Messages : CallFirst(s, m)
    \/ \E s \in Sessions, msg \in Events : Yield(s, msg)
    \/ \E s \in Sessions : Step(s)

SpecScan == Init /\ [][NextScan]_vars

\* one caller that also describes its sessions between sends
DescribeInTurn(s) ==
    /\ AllIdle
    /\ Len(obs[1].descs) + Len(obs[2].descs) < MaxDescribes
    /\ Describe(s)

NextDescribe ==
    \/ \E s \in Sessions, c \in DescribeConfigs, sdk \in BOOLEAN : CreateInTurn(s, c, sdk)
    \/ Created
    \/ \E s \in Sessions, m \in DescribeMessages : CallInTurn(s, m)
    \/ \E s \in Sessions, msg \in PlainEvents : Yield(s, msg)
    \/ \E s \in Sessions : Step(s)
    \/ \E s \in Sessions : DescribeInTurn(s)

SpecDescribe == InitDescribe /\ [][NextDescribe]_vars

\* construction alone, over every configuration and environment
NextCreate ==
    \/ \E s \in Sessions, c \in Configs, sdk \in BOOLEAN : Create(s, c, sdk)
    \/ Created

SpecCreate == InitCreate /\ [][NextCreate]_vars

\* ------------------------------------------------------------ properties
Returned(s) == frame[s].pc = "returned"
Raised(s) == frame[s].pc = "raised"
Texts == {"", "r1", "c1"}

\* the counts a usage attribute reports (zero for a missing count, or no usage at all)
ReportedInput(u) == Getattr(u.input_tokens, 0)
ReportedOutput(u) == Getattr(u.output_tokens, 0)

\* C1: a send to a Ready session that completes returns a text value and leaves
\* each cumulative token counter greater than or equal to its value before the
\* send, whatever messages the backend yielded.
C1_TextAndMonotoneCounters ==
    \A s \in Sessions : Returned(s) =>
        /\ frame[s].response_text \in Texts
        /\ session[s].input_tokens_ >= obs[s].pre.input_tokens_
        /\ session[s].output_tokens_ >= obs[s].pre.output_tokens_

C3_HistoryInCallOrder ==
    \A s \in Sessions :
        LET h == session[s].history_
            l == obs[s].log
        IN  /\ Len(h) = Len(l) + (IF Returned(s) THEN 1 ELSE 0)
            /\ \A i \in 1..Len(l) : h[i].input = l[i][1] /\ h[i].output = l[i][2]
            /\ Returned(s) => /\ h[Len(h)].input = frame[s].message
                              /\ h[Len(h)].output = frame[s].response_text

\* two sends with different messages have returned on one session
C3_Witness ==
    \E s \in Sessions :
        /\ Idle(s)
        /\ Len(obs[s].log) = 2
        /\ obs[s].log[1][1] /= obs[s].log[2][1]
        /\ Len(session[s].history_) = 2

\* C4: a send with an empty message fails with the validation error, on a Ready
\* session and on one whose backend is not initialized alike, and the backend is
\* never invoked.
C4_EmptyMessageValueError ==
    \A s \in Sessions :
        (frame[s].message = "" /\ frame[s].pc \notin {"idle", "L200"}) =>
            /\ Raised(s)
            /\ frame[s].exc = "ValueError"
            /\ obs[s].queries = 0

\* an empty message was sent to a session whose backend is not initialized
C4_Witness ==
    \E s \in Sessions :
        /\ session[s].exists /\ ~session[s].agent
        /\ Raised(s) /\ frame[s].message = "" /\ frame[s].exc = "ValueError"

\* C5: a configuration that selects the direct backend and supplies no credential
\* (no api_key or an empty one, and no non-empty ANTHROPIC_API_KEY) makes
\* construction fail with the credential error before the SDK is imported; no
\* session is produced and the environment is not written.
C5_MissingCredentialFails ==
    LET c == ctor.config IN
    (/\ ctor.pending
     /\ c.backend /= "bedrock"
     /\ c.api_key \in {NoAttr, None, ""}
     /\ ctor.env0["ANTHROPIC_API_KEY"] \in {Absent, ""}) =>
        /\ ctor.raised = "ValueError"
        /\ ~ctor.imported
        /\ ~session[ctor.slot].exists
        /\ env = ctor.env0

\* construction failed for an empty api_key with an empty ANTHROPIC_API_KEY
C5_Witness ==
    /\ ctor.pending
    /\ ctor.config.backend = "anthropic"
    /\ ctor.config.api_key = ""
    /\ ctor.env0["ANTHROPIC_API_KEY"] = ""
    /\ ctor.raised = "ValueError"

\* C6: when a send has returned or raised, CLAUDE_MODEL has the state it had
\* before the call: the same value, or absent if it was absent.
C6_ModelVarRestored ==
    \A s \in Sessions :
        frame[s].pc \in {"returned", "raised"} => env["CLAUDE_MODEL"] = obs[s].pre.model

\* C7: no step changes the readiness of a session; a non-empty send to a session
\* whose backend is not initialized fails with the not-ready error and the
\* backend is not invoked.
C7_ReadinessFixed ==
    /\ [][\A s \in Sessions : session[s].exists =>
              session'[s].exists /\ session'[s].agent = session[s].agent]_vars
    /\ [](\A s \in Sessions :
            (/\ ~session[s].agent
             /\ frame[s].message /= ""
             /\ frame[s].pc \notin {"idle", "L200"}) =>
                /\ Raised(s)
                /\ frame[s].exc = "RuntimeError"
                /\ obs[s].queries = 0)

\* a not-ready session has refused a send while a Ready one, after a send that
\* returned, is still Ready
C7_Witness ==
    \E s, t \in Sessions :
        /\ session[s].exists /\ ~session[s].agent
        /\ Raised(s) /\ frame[s].exc = "RuntimeError"
        /\ session[t].agent /\ Len(session[t].history_) > 0

\* the value of the result attribute of a message, else of its content attribute
Carried(m) == IF m.result /= NoAttr THEN m.result ELSE m.content

\* a carried value as the text returned for it: None gives the empty string
AsText(v) == IF v = None THEN "" ELSE v

\* C8 as claimed: the text returned is the value of the result or content
\* attribute of the last message that carried either (result first), and the
\* empty string when no message carried either.
C8_LastCarrierWins ==
    \A s \in Sessions : Returned(s) =>
        frame[s].response_text =
            (IF obs[s].last_text = NoText THEN "" ELSE AsText(Carried(obs[s].last_text)))

\* C8 amended: the text returned is taken from the last message that carried a
\* result attribute or a content attribute holding a str (result first): it is
\* that value, or the empty string when that value is None or when no such
\* message came; a message carrying neither, or only a content that is not a
\* str, never changes the outcome.
C8_LastStrCarrierWins ==
    \A s \in Sessions : Returned(s) =>
        frame[s].response_text =
            (IF obs[s].last_str = NoText THEN "" ELSE AsText(Carried(obs[s].last_str)))

\* a send returned the text of an earlier message although the last message to
\* carry a field carried a content that is not a str
C8_Witness ==
    \E s \in Sessions :
        /\ Returned(s)
        /\ obs[s].last_text = [result |-> NoAttr, content |-> NotStr]
        /\ obs[s].last_str = [result |-> "r1", content |-> "c1"]
        /\ frame[s].response_text = "r1"

\* C9: within one send the backend query is started at most once, and once the
\* backend has raised the send only raises that failure: it never returns a text.
C9_NoRetryNoRecovery ==
    \A s \in Sessions :
        /\ obs[s].queries <= 1
        /\ obs[s].failed =>
              /\ frame[s].pc \in {"L168", "L171", "raised"}
              /\ frame[s].exc = "SDKError"

\* the backend raised after it had yielded a result, and the send raised
C9_Witness ==
    \E s \in Sessions :
        /\ Raised(s) /\ obs[s].failed /\ frame[s].exc = "SDKError"
        /\ obs[s].last_text.result = "r1"
        /\ obs[s].queries = 1

\* C10: with sends of two sessions interleaving, the backend of each send reads
\* its own session's model from CLAUDE_MODEL, and when two sends that began with
\* the same CLAUDE_MODEL have both returned, CLAUDE_MODEL is as it was.
C10_SendsIndependent ==
    /\ \A s \in Sessions :
          obs[s].queries > 0 => obs[s].seen_model = session[s].model_name
    /\ \A s, t \in Sessions :
          (s /= t /\ Returned(s) /\ Returned(t) /\ obs[s].pre.model = obs[t].pre.model)
              => env["CLAUDE_MODEL"] = obs[s].pre.model

\* construct has just returned a session to the caller
Constructed == ctor.pending /\ ctor.raised = ""

\* C11: when construct has just returned a session, CLAUDE_CODE_USE_BEDROCK is
\* set if the session's configuration selects bedrock and is not set if it
\* selects the direct backend, whatever constructions came before.
C11_FlagFollowsBackend ==
    Constructed =>
        (env["CLAUDE_CODE_USE_BEDROCK"] /= Absent <=> session[ctor.slot].use_bedrock)

\* C12: a describe call between sends changes neither the session (history and
\* cumulative counters included) nor the environment, and all describe calls on
\* a session return the same metadata: provider, model, backend, working
\* directory and allowed tools as the session holds them.
C12_DescribePure ==
    /\ [][\A s \in Sessions : Len(obs'[s].descs) > Len(obs[s].descs) =>
              session' = session /\ env' = env]_vars
    /\ [](\A s \in Sessions : \A i, j \in DOMAIN obs[s].descs :
              /\ obs[s].descs[i].result = obs[s].descs[j].result
              /\ obs[s].descs[i].result = DescribeResult(session[s]))

\* a session built with its own tool list and working directory was described
\* before its first send returned and again after it
C12_Witness ==
    \E s \in Sessions :
        /\ Len(obs[s].descs) = 2
        /\ obs[s].descs[1].at = 0
        /\ obs[s].descs[2].at = 1
        /\ session[s].input_tokens_ > 0
        /\ obs[s].descs[2].result.allowed_tools = "[Read]"
        /\ obs[s].descs[2].result.working_directory = "/w"

\* C13: with the SDK importable, construction with the bedrock backend and no
\* credential (no api_key or an empty one in the configuration, ANTHROPIC_API_KEY
\* absent or empty) returns a Ready session: no error is raised, and
\* ANTHROPIC_API_KEY is neither looked up nor written.
C13_BedrockNeedsNoCredential ==
    (/\ ctor.pending
     /\ ctor.sdk
     /\ ctor.config.backend = "bedrock"
     /\ ctor.config.api_key \in {NoAttr, None, ""}
     /\ ctor.env0["ANTHROPIC_API_KEY"] \in {Absent, ""}) =>
        /\ ctor.raised = ""
        /\ session[ctor.slot].exists
        /\ session[ctor.slot].agent
        /\ session[ctor.slot].use_bedrock
        /\ "ANTHROPIC_API_KEY" \notin ctor.reads
        /\ env["ANTHROPIC_API_KEY"] = ctor.env0["ANTHROPIC_API_KEY"]

\* a bedrock session was returned with no api_key attribute and no ANTHROPIC_API_KEY
C13_Witness ==
    /\ Constructed
    /\ ctor.config.backend = "bedrock"
    /\ ctor.config.api_key = NoAttr
    /\ ctor.env0["ANTHROPIC_API_KEY"] = Absent
    /\ env["ANTHROPIC_API_KEY"] = Absent
    /\ session[ctor.slot].agent

RECURSIVE SumOver(_, _)
SumOver(h, count) == IF h = <<>> THEN 0 ELSE h[1][count] + SumOver(Tail(h), count)

\* C15: whenever no send of a session is part-way through, the input_tokens of
\* its history entries sum to its cumulative input counter and the output_tokens
\* to its cumulative output counter (each entry holding the counts of its send).
C15_HistorySumsToCounters ==
    \A s \in Sessions : frame[s].pc \in {"idle", "returned"} =>
        /\ SumOver(session[s].history_, "input_tokens") = session[s].input_tokens_
        /\ SumOver(session[s].history_, "output_tokens") = session[s].output_tokens_

\* a region override: an aws_region attribute holding a non-empty string
Override(c) == c.aws_region /= NoAttr /\ Truthy(c.aws_region)

\* C16: when construct has just returned a bedrock session, AWS_DEFAULT_REGION
\* holds the override when the configuration gave one; without an override the
\* session's region is the value AWS_DEFAULT_REGION had, or us-west-2 when it
\* was absent; and in every case the session's region equals AWS_DEFAULT_REGION.
C16_RegionAgrees ==
    LET c == ctor.config
        sess == session[ctor.slot]
        was == ctor.env0["AWS_DEFAULT_REGION"]
    IN  (Constructed /\ sess.use_bedrock) =>
            /\ Override(c) => env["AWS_DEFAULT_REGION"] = c.aws_region
            /\ ~Override(c) => sess.aws_region = (IF was = Absent THEN "us-west-2" ELSE was)
            /\ sess.aws_region = env["AWS_DEFAULT_REGION"]

====
